---- MODULE Spec2Model ----
(***************************************************************************)
(* Model of the CardioScan LVNC script (src/lvnc-app.py).                  *)
(*                                                                         *)
(* One run of the script is one pass from the sidebar widgets to the       *)
(* footer.  A widget change or a button click makes the runtime run the    *)
(* script again; the button returns True only in the run its click         *)
(* started.  The scan loop publishes to the page on every iteration and    *)
(* sleeps between iterations, so each iteration is a step of its own.      *)
(* Widget events are taken between runs: the script has no code for an     *)
(* event that arrives while the loop is running.                           *)
(*                                                                         *)
(* Units: nc_ratio and trabeculation_score are in hundredths,              *)
(* ejection_fraction in tenths of a percent; the weighted sum is kept as   *)
(* an exact fraction over RAW_DEN.  The sample values of the signal        *)
(* (sinusoids and Gaussian noise) are not represented: only the buffer     *)
(* length and the branch taken by the abnormality draw are.                *)
(***************************************************************************)
EXTENDS Integers, FiniteSets, Sequences, TLC

VARIABLES
    connection_status,   \* sidebar selectbox "Device Status"
    sensitivity,         \* sidebar slider, UNBOUND when not rendered
    scan_duration,       \* sidebar select_slider, UNBOUND when not rendered
    phase,               \* "Idle" | "Acquiring" | "Completed"
    sample_rate,         \* script variable sample_rate
    duration,            \* script variable duration
    samples,             \* script variable samples (buffer length)
    abnormal,            \* branch taken by np.random.rand() > 0.6
    step,                \* iterations of the scan loop already executed
    progress_bar,        \* value shown by the progress bar
    display_samples,     \* end index of the waveform last published
    wave_count,          \* waveforms published in this scan
    freq_count,          \* spectral estimates published in this scan
    freq_window,         \* length of the prefix of the last estimate
    nc_ratio,
    ejection_fraction,
    trabeculation_score,
    perturbation,        \* value returned by np.random.randint(0, 15)
    risk_score,
    metric_band,         \* delta text of the "LVNC Risk Score" card
    recommendation,      \* which recommendation block was rendered
    assessments          \* times the diagnostic section ran in this scan

vars == <<connection_status, sensitivity, scan_duration, phase, sample_rate,
          duration, samples, abnormal, step, progress_bar, display_samples,
          wave_count, freq_count, freq_window, nc_ratio, ejection_fraction,
          trabeculation_score, perturbation, risk_score, metric_band,
          recommendation, assessments>>

widgets == <<connection_status, sensitivity, scan_duration>>

synth == <<sample_rate, duration, samples, abnormal>>

diagnosis == <<nc_ratio, ejection_fraction, trabeculation_score, perturbation,
               risk_score, metric_band, recommendation>>

----------------------------------------------------------------------------
(* Bounds of the model *)

\* the biomarker ranges are sampled on grids of NcGrid, EfGrid and TrGrid steps
NcGrid == 6

EfGrid == 3

TrGrid == 5

\* durations 1..MaxDurationSeconds are the configurations of SpecConfig
MaxDurationSeconds == 2

----------------------------------------------------------------------------
(* Program constants *)

SAMPLE_RATE == 44100

DURATION == 10

STEPS == 100

WELCH_EVERY == 5

SENSITIVITY_MAX == 100

SENSITIVITY_DEFAULT == 75

SCAN_DURATION_DEFAULT == 10

ScanDurationOptions == {5, 10, 15, 30}

SensitivityValues == {SENSITIVITY_DEFAULT, SENSITIVITY_MAX}

NC_LOW == 150

NC_HIGH == 280

EF_LOW == 350

EF_HIGH == 650

TR_LOW == 40

TR_HIGH == 90

RANDINT_LOW == 0

RANDINT_HIGH == 15

\* a script variable that the current run has not assigned
UNBOUND == 0

\* the progress bar is absent (never created, or removed by empty())
PROGRESS_EMPTY == -1

\* denominator of the weighted sum: 100 (hundredths) * 13 (65 = 5 * 13)
RAW_DEN == 1300

----------------------------------------------------------------------------
(* Pure helpers *)

Min(a, b) == IF a <= b THEN a ELSE b

\* Python int(): truncation toward zero of num/den, den > 0
IntTrunc(num, den) == IF num >= 0 THEN num \div den ELSE -((-num) \div den)

\* variant: round to nearest instead of truncating
IntRound(num, den) == (2 * num + den) \div (2 * den)

\* np.random.randint(low, high): the integers of [low, high)
randint(low, high) == low..(high - 1)

\* np.random.uniform(low, high) sampled on a grid of n+1 points
uniform(low, high, n) == {low + ((high - low) * k) \div n : k \in 0..n}

\* the values the three biomarker draws range over: the grid of each range and
\* the markers 2.5, 35, 0.85 of the documented scoring scenario
NcSamples == uniform(NC_LOW, NC_HIGH, NcGrid) \cup {250}

EfSamples == uniform(EF_LOW, EF_HIGH, EfGrid) \cup {350}

TrSamples == uniform(TR_LOW, TR_HIGH, TrGrid) \cup {85}

\* chunk_size = int(samples/100)
chunk_size(n) == IntTrunc(n, STEPS)

\* display_samples = min((i+1)*chunk_size, samples), i the 0-based index
DisplaySamples(i, n) == Min((i + 1) * chunk_size(n), n)

\* variant: progress_bar.progress(i)
ProgressZeroBased(i) == i

\* progress_bar.progress(i + 1)
Progress(i) == i + 1

\* variant: the 1-based step index is tested
WelchDueOneBased(i) == (i + 1) % WELCH_EVERY = 0

\* if i % 5 == 0
WelchDue(i) == i % WELCH_EVERY = 0

\* variant: range(99)
LoopExhaustedEarly(s) == s >= STEPS - 1

\* range(100) is exhausted after s iterations
LoopExhausted(s) == s >= STEPS

\* numerator over RAW_DEN of
\* 30*(nc_ratio-1.5) + 25*(1-(ejection_fraction/65)) + 20*trabeculation_score + p
RawNum(nc, ef, tr, p) ==
    390 * (nc - 150) + 50 * (650 - ef) + 260 * tr + RAW_DEN * p

\* variants: round() in place of int(), and no min(100, ...)
RiskScoreRounded(nc, ef, tr, p) == Min(100, IntRound(RawNum(nc, ef, tr, p), RAW_DEN))

RiskScoreUnclamped(nc, ef, tr, p) == IntTrunc(RawNum(nc, ef, tr, p), RAW_DEN)

\* risk_score = min(100, int(...))
RiskScore(nc, ef, tr, p) == Min(100, IntTrunc(RawNum(nc, ef, tr, p), RAW_DEN))

\* "High Risk" if risk_score > 60 else "Moderate" if risk_score > 40 else "Low"
MetricBand(s) ==
    IF s > 60 THEN "High Risk" ELSE IF s > 40 THEN "Moderate" ELSE "Low"

\* variant: the recommendation reuses the thresholds of the metric card
RecommendationUnified(s) ==
    IF s > 60 THEN "urgent-referral"
    ELSE IF s > 40 THEN "moderate-suspicion" ELSE "low-probability"

\* if risk_score > 70 ... elif risk_score > 45 ... else ...
Recommendation(s) ==
    IF s > 70 THEN "urgent-referral"
    ELSE IF s > 45 THEN "moderate-suspicion" ELSE "low-probability"

----------------------------------------------------------------------------
(* State machine *)

\* the page of a run whose button returned False: no scan block is rendered
NoScan ==
    /\ phase' = "Idle"
    /\ sample_rate' = UNBOUND
    /\ duration' = UNBOUND
    /\ samples' = UNBOUND
    /\ abnormal' = FALSE
    /\ step' = 0
    /\ progress_bar' = PROGRESS_EMPTY
    /\ display_samples' = 0
    /\ wave_count' = 0
    /\ freq_count' = 0
    /\ freq_window' = 0
    /\ nc_ratio' = UNBOUND
    /\ ejection_fraction' = UNBOUND
    /\ trabeculation_score' = UNBOUND
    /\ perturbation' = UNBOUND
    /\ risk_score' = UNBOUND
    /\ metric_band' = "none"
    /\ recommendation' = "none"
    /\ assessments' = 0

Init ==
    /\ connection_status = "Disconnected"
    /\ sensitivity = UNBOUND
    /\ scan_duration = UNBOUND
    /\ phase = "Idle"
    /\ sample_rate = UNBOUND
    /\ duration = UNBOUND
    /\ samples = UNBOUND
    /\ abnormal = FALSE
    /\ step = 0
    /\ progress_bar = PROGRESS_EMPTY
    /\ display_samples = 0
    /\ wave_count = 0
    /\ freq_count = 0
    /\ freq_window = 0
    /\ nc_ratio = UNBOUND
    /\ ejection_fraction = UNBOUND
    /\ trabeculation_score = UNBOUND
    /\ perturbation = UNBOUND
    /\ risk_score = UNBOUND
    /\ metric_band = "none"
    /\ recommendation = "none"
    /\ assessments = 0

\* the user picks another entry of the "Device Status" selectbox; the sliders
\* are rendered, with their defaults, only in the Connected branch
SelectStatus(s) ==
    /\ phase # "Acquiring"
    /\ s # connection_status
    /\ connection_status' = s
    /\ sensitivity' = IF s = "Connected" THEN SENSITIVITY_DEFAULT ELSE UNBOUND
    /\ scan_duration' = IF s = "Connected" THEN SCAN_DURATION_DEFAULT ELSE UNBOUND
    /\ NoScan

\* the user moves the "Sensor Sensitivity" slider
SetSensitivity(v) ==
    /\ phase # "Acquiring"
    /\ connection_status = "Connected"
    /\ v # sensitivity
    /\ sensitivity' = v
    /\ UNCHANGED <<connection_status, scan_duration>>
    /\ NoScan

\* the user moves the "Scan Duration" select_slider
SetScanDuration(v) ==
    /\ phase # "Acquiring"
    /\ connection_status = "Connected"
    /\ v # scan_duration
    /\ scan_duration' = v
    /\ UNCHANGED <<connection_status, sensitivity>>
    /\ NoScan

\* the button returned True: progress bar, containers and signal synthesis
StartScan(rate, dur) ==
    /\ phase # "Acquiring"
    /\ phase' = "Acquiring"
    /\ progress_bar' = 0
    /\ sample_rate' = rate
    /\ duration' = dur
    /\ samples' = IntTrunc(dur * rate, 1)
    /\ abnormal' \in BOOLEAN
    /\ step' = 0
    /\ display_samples' = 0
    /\ wave_count' = 0
    /\ freq_count' = 0
    /\ freq_window' = 0
    /\ nc_ratio' = UNBOUND
    /\ ejection_fraction' = UNBOUND
    /\ trabeculation_score' = UNBOUND
    /\ perturbation' = UNBOUND
    /\ risk_score' = UNBOUND
    /\ metric_band' = "none"
    /\ recommendation' = "none"
    /\ assessments' = 0
    /\ UNCHANGED widgets

\* variant: the selected scan duration is passed to the synthesis
ClickStartWired == StartScan(SAMPLE_RATE, scan_duration)

ClickStart == StartScan(SAMPLE_RATE, DURATION)

\* one iteration of "for i in range(100)", i = step
ScanStep ==
    /\ phase = "Acquiring"
    /\ ~LoopExhausted(step)
    /\ progress_bar' = Progress(step)
    /\ display_samples' = DisplaySamples(step, samples)
    /\ wave_count' = wave_count + 1
    /\ IF WelchDue(step)
       THEN /\ freq_count' = freq_count + 1
            /\ freq_window' = DisplaySamples(step, samples)
       ELSE UNCHANGED <<freq_count, freq_window>>
    /\ step' = step + 1
    /\ UNCHANGED <<widgets, synth, diagnosis, phase, assessments>>

\* after the loop: progress_bar.empty(), the biomarker draws, the score, the
\* metric cards and the recommendation
Diagnose ==
    /\ phase = "Acquiring"
    /\ LoopExhausted(step)
    /\ progress_bar' = PROGRESS_EMPTY
    /\ \E nc \in NcSamples,
          ef \in EfSamples,
          tr \in TrSamples,
          p \in randint(RANDINT_LOW, RANDINT_HIGH) :
            /\ nc_ratio' = nc
            /\ ejection_fraction' = ef
            /\ trabeculation_score' = tr
            /\ perturbation' = p
            /\ risk_score' = RiskScore(nc, ef, tr, p)
            /\ metric_band' = MetricBand(RiskScore(nc, ef, tr, p))
            /\ recommendation' = Recommendation(RiskScore(nc, ef, tr, p))
    /\ assessments' = assessments + 1
    /\ phase' = "Completed"
    /\ UNCHANGED <<widgets, synth, step, display_samples, wave_count,
                   freq_count, freq_window>>

UserSelectStatus == \E s \in {"Disconnected", "Connected"} : SelectStatus(s)

UserSetSensitivity == \E v \in SensitivityValues : SetSensitivity(v)

UserSetScanDuration == \E v \in ScanDurationOptions : SetScanDuration(v)

Next ==
    \/ UserSelectStatus
    \/ UserSetSensitivity
    \/ UserSetScanDuration
    \/ ClickStart
    \/ ScanStep
    \/ Diagnose

Spec == Init /\ [][Next]_vars

\* the loop and the diagnostic section run to the end once the script started
FairSpec == Spec /\ WF_vars(ScanStep) /\ WF_vars(Diagnose)

\* the scan loop over other configurations than the one wired in
ConfigRates == {SAMPLE_RATE, SAMPLE_RATE \div 2}

ConfigDurations == 1..MaxDurationSeconds

ClickStartConfig ==
    \E rate \in ConfigRates, dur \in ConfigDurations : StartScan(rate, dur)

NextConfig ==
    \/ UserSelectStatus
    \/ UserSetSensitivity
    \/ UserSetScanDuration
    \/ ClickStartConfig
    \/ ScanStep
    \/ Diagnose

SpecConfig == Init /\ [][NextConfig]_vars

----------------------------------------------------------------------------
(* Properties *)

InScan == phase \in {"Acquiring", "Completed"}

\* 30*(ncRatio-1.5) + 25*(1-ejectionFraction/65) + 20*trabeculationScore
\* + perturbation, as a numerator over 1300 (ncRatio and trabeculationScore in
\* hundredths, ejectionFraction in tenths)
WeightedSum(nc, ef, tr, p) ==
    13 * 30 * (nc - 150) + 2 * 25 * (650 - ef) + 13 * 20 * tr + 1300 * p

\* s = min(100, floor(num/1300))
IsClampedFloor(s, num) ==
    IF num >= 100 * 1300
    THEN s = 100
    ELSE s * 1300 <= num /\ num < (s + 1) * 1300

ScenarioScores ==
    /\ RiskScore(250, 350, 85, 0) = 58
    /\ RiskScore(250, 350, 85, 15) = 73

\* C2: the risk score of a completed scan is
\* min(100, floor(30*(ncRatio-1.5) + 25*(1-ejectionFraction/65)
\* + 20*trabeculationScore + perturbation)); the markers 2.5, 35, 0.85 give 58
\* with perturbation 0 and 73 with perturbation 15.
C2_RiskScoreFormula ==
    phase = "Completed" =>
        /\ IsClampedFloor(risk_score,
                          WeightedSum(nc_ratio, ejection_fraction,
                                      trabeculation_score, perturbation))
        /\ ScenarioScores

C2_Witness ==
    /\ phase = "Completed"
    /\ nc_ratio = 250
    /\ ejection_fraction = 350
    /\ trabeculation_score = 85
    /\ perturbation = 0
    /\ risk_score = 58

\* marker values beyond the documented ranges, where the weighted sum passes 100
ClampProbeNc == {280, 450, 600}

ClampProbeEf == {0, 350}

ClampProbeTr == {90, 200}

ClampHolds ==
    \A nc \in ClampProbeNc, ef \in ClampProbeEf, tr \in ClampProbeTr,
       p \in randint(RANDINT_LOW, RANDINT_HIGH) :
         WeightedSum(nc, ef, tr, p) > 100 * 1300
             => RiskScore(nc, ef, tr, p) = 100

\* C3: the risk score of every completed scan is an integer in [0,100], and
\* the score is 100 whenever the weighted sum exceeds 100.
C3_ScoreInRange ==
    phase = "Completed" =>
        /\ risk_score \in 0..100
        /\ WeightedSum(nc_ratio, ejection_fraction, trabeculation_score,
                       perturbation) > 100 * 1300 => risk_score = 100
        /\ ClampHolds

\* the largest score a scan can publish: markers 2.8, 35, 0.9, perturbation 14
C3_Witness ==
    /\ phase = "Completed"
    /\ nc_ratio = 280
    /\ ejection_fraction = 350
    /\ trabeculation_score = 90
    /\ perturbation = 14
    /\ risk_score = 82

BandsOf(s, metric, rec) ==
    /\ metric = "High Risk" <=> s > 60
    /\ metric = "Moderate" <=> (40 < s /\ s <= 60)
    /\ metric = "Low" <=> s <= 40
    /\ rec = "urgent-referral" <=> s > 70
    /\ rec = "moderate-suspicion" <=> (45 < s /\ s <= 70)
    /\ rec = "low-probability" <=> s <= 45

BandsTable ==
    /\ \A s \in 0..100 : BandsOf(s, MetricBand(s), Recommendation(s))
    /\ MetricBand(58) = "Moderate" /\ Recommendation(58) = "moderate-suspicion"
    /\ MetricBand(73) = "High Risk" /\ Recommendation(73) = "urgent-referral"
    /\ \A s \in 61..70 :
          MetricBand(s) = "High Risk" /\ Recommendation(s) = "moderate-suspicion"
    /\ \A s \in 41..45 :
          MetricBand(s) = "Moderate" /\ Recommendation(s) = "low-probability"

\* C4: both bands depend on the score alone, each with its own thresholds:
\* metric card High Risk above 60, Moderate in 41..60, Low up to 40;
\* recommendation urgent-referral above 70, moderate-suspicion in 46..70,
\* low-probability up to 45.  58 gives Moderate / moderate-suspicion, 73 gives
\* High Risk / urgent-referral, 61..70 High Risk / moderate-suspicion and
\* 41..45 Moderate / low-probability.
C4_Bands ==
    phase = "Completed" =>
        /\ BandsOf(risk_score, metric_band, recommendation)
        /\ BandsTable

C4_Witness ==
    /\ phase = "Completed"
    /\ risk_score \in 61..70
    /\ metric_band = "High Risk"
    /\ recommendation = "moderate-suspicion"

EveryValueDrawable == \A v \in 0..15 : v \in randint(RANDINT_LOW, RANDINT_HIGH)

\* C5: the perturbation of a completed scan is an integer of [0,15], and every
\* value 0..15, 15 included, can be drawn.
C5_PerturbationInclusive ==
    phase = "Completed" =>
        /\ perturbation \in 0..15
        /\ EveryValueDrawable

C7_ScanOnlyWhenConnected ==
    phase = "Acquiring" => connection_status = "Connected"

\* C8: while Acquiring the progress value is the 1-based index of the step
\* just published: it lies in [0,100], grows by exactly 1 per step and is 100
\* on the step whose reveal window covers the whole buffer.
C8_Progress ==
    /\ [](phase = "Acquiring" =>
            /\ progress_bar \in 0..100
            /\ progress_bar = step
            /\ progress_bar = 100 <=> (step >= 1 /\ display_samples = samples))
    /\ [][(phase = "Acquiring" /\ phase' = "Acquiring") =>
            (step' = step + 1 /\ progress_bar' = progress_bar + 1)]_vars

C8_Witness ==
    /\ phase = "Acquiring"
    /\ progress_bar = 100
    /\ samples = 441000
    /\ display_samples = samples

\* C9: a spectral estimate is published on 0-based step i iff i mod 5 = 0,
\* over the reveal window of that step; the waveform is published on every
\* step; a scan publishes 20 estimates and 100 waveforms, the last estimate on
\* step 95 over a prefix shorter than the buffer.
C9_SpectralCadence ==
    /\ [](InScan =>
            /\ wave_count = step
            /\ freq_count = (step + 4) \div 5
            /\ step >= 1 =>
                 freq_window = (5 * ((step - 1) \div 5) + 1) * (samples \div 100)
            /\ step = 100 =>
                 (/\ freq_count = 20
                  /\ wave_count = 100
                  /\ freq_window = 96 * (samples \div 100)
                  /\ freq_window < samples))
    /\ [][(phase = "Acquiring" /\ phase' = "Acquiring") =>
            /\ wave_count' = wave_count + 1
            /\ display_samples' = (step + 1) * (samples \div 100)
            /\ step % 5 = 0 =>
                 (freq_count' = freq_count + 1 /\ freq_window' = display_samples')
            /\ step % 5 # 0 => UNCHANGED <<freq_count, freq_window>>]_vars

C9_Witness ==
    /\ phase = "Completed"
    /\ wave_count = 100
    /\ freq_count = 20
    /\ freq_window = 423360
    /\ samples = 441000

\* C10: whatever the sensitivity and the selected scan duration, a scan uses
\* sample rate 44100 and duration 10, and everything it publishes is a
\* function of the step and of the random draws alone: buffer length 441000,
\* reveal windows step * 4410, progress step, one estimate per 5 steps, and
\* the score and bands given by the drawn markers and perturbation.
C10_SidebarIgnored ==
    InScan =>
        /\ sample_rate = 44100
        /\ duration = 10
        /\ samples = 441000
        /\ display_samples = step * 4410
        /\ wave_count = step
        /\ freq_count = (step + 4) \div 5
        /\ freq_window = (IF step = 0 THEN 0 ELSE (5 * ((step - 1) \div 5) + 1) * 4410)
        /\ phase = "Acquiring" => progress_bar = step
        /\ phase = "Completed" =>
             /\ IsClampedFloor(risk_score,
                               WeightedSum(nc_ratio, ejection_fraction,
                                           trabeculation_score, perturbation))
             /\ BandsOf(risk_score, metric_band, recommendation)

C10_Witness ==
    /\ phase = "Completed"
    /\ connection_status = "Connected"
    /\ scan_duration = 30
    /\ sensitivity = 100
    /\ samples = 441000
    /\ display_samples = 441000

====
